---------------------------- MODULE Spec2Model ----------------------------
(***************************************************************************)
(* GRIB message -> cube metadata conversion                               *)
(* (lib/iris/fileformats/grib/_load_convert).                             *)
(*                                                                         *)
(* Every function of the package is an operator that evaluates the        *)
(* function body statement by statement and yields an outcome record      *)
(*    [exc, msg, val, metadata, calls]                                     *)
(* exc      : "none", or the class of the exception that left the call    *)
(* msg      : the exception's message, a sequence of string tokens        *)
(* val      : the returned object (kind "None" when nothing is returned)  *)
(* metadata : the metadata dictionary object as the call left it (the     *)
(*            converters mutate it in place)                               *)
(* calls    : the package functions that were entered, in order           *)
(*                                                                         *)
(* A global name is looked up in the namespace of the module whose file   *)
(* holds the function; a name that no top-level statement of that file    *)
(* binds raises NameError at the statement that evaluates it.             *)
(*                                                                         *)
(* Angles are kept as integer multiples of the grid accuracy unit, so     *)
(* k * inc * direction + offset is exact integer arithmetic.              *)
(***************************************************************************)
EXTENDS Integers, Sequences, FiniteSets, TLC

VARIABLES op, field, flags, md0, dimCoordValidates,
          pc, exc, msg, ret, metadata, calls, centres

vars == <<op, field, flags, md0, dimCoordValidates,
          pc, exc, msg, ret, metadata, calls, centres>>

(***************************************************************************)
(* Bounds of the enumerated inputs.                                        *)
(***************************************************************************)
MaxN == 4
MaxInc == 2
MaxOffset == 1
MaxEdition == 3

Editions == 0..MaxEdition
CentreCodes == {"ecmf", "kwbc"}
Templates == {0, 20}
ScanModes == {0, 16, 32, 64, 128, 160, 224, 79}
Flags == 0..255

(***************************************************************************)
(* Python built-ins used by the package.                                   *)
(***************************************************************************)
RECURSIVE BitAnd(_, _)
BitAnd(a, b) ==
    IF a = 0 \/ b = 0 THEN 0
    ELSE (a % 2) * (b % 2) + 2 * BitAnd(a \div 2, b \div 2)

bool(x) == x # 0

DigitChar(d) == <<"0", "1", "2", "3", "4", "5", "6", "7", "8", "9">>[d + 1]

RECURSIVE Decimal(_)
Decimal(n) ==
    IF n < 10 THEN <<DigitChar(n)>>
    ELSE Decimal(n \div 10) \o <<DigitChar(n % 10)>>

Contains(m, sub) ==
    \E i \in 1..(Len(m) - Len(sub) + 1) : SubSeq(m, i, i + Len(sub) - 1) = sub

None == [kind |-> "None"]

Return(v, md, cs) ==
    [exc |-> "none", msg |-> <<>>, val |-> v, metadata |-> md, calls |-> cs]

Raise(e, m, md, cs) ==
    [exc |-> e, msg |-> m, val |-> None, metadata |-> md, calls |-> cs]

NameError(name, md, cs) ==
    Raise("NameError", <<"name '", name, "' is not defined">>, md, cs)

(***************************************************************************)
(* Module namespaces: the names bound by the top-level statements of      *)
(* each file.                                                              *)
(***************************************************************************)
InitGlobals ==
    {"absolute_import", "division", "print_function", "OrderedDict",
     "TranslationError", "grib1_convert", "grib2_convert",
     "ConversionMetadata", "convert"}

CommonGlobals ==
    {"absolute_import", "division", "print_function", "namedtuple",
     "ScanningMode", "ProjectionCentre", "_CENTRES",
     "projection_centre", "scanning_mode"}

Edition1Globals ==
    {"resolution_flags", "grid_definition_template_0", "grib1_convert"}

\* Reference Common Code Table C-1.
_CENTRES ==
    [c \in {"ecmf"} |-> "European Centre for Medium Range Weather Forecasts"]

EmptyAttributes == [k \in {} |-> ""]

EmptyMetadata ==
    [factories |-> <<>>, references |-> <<>>, standard_name |-> None,
     long_name |-> None, units |-> None, attributes |-> EmptyAttributes,
     cell_methods |-> <<>>, dim_coords_and_dims |-> <<>>,
     aux_coords_and_dims |-> <<>>]

(***************************************************************************)
(* _common.py                                                              *)
(***************************************************************************)
projection_centre(projectionCentreFlag) ==
    LET south_pole_on_projection_plane == bool(BitAnd(projectionCentreFlag, 128))
        bipolar_and_symmetric == bool(BitAnd(projectionCentreFlag, 64))
    IN Return([kind |-> "ProjectionCentre",
               south_pole_on_projection_plane |-> south_pole_on_projection_plane,
               bipolar_and_symmetric |-> bipolar_and_symmetric],
              EmptyMetadata, <<"projection_centre">>)

scanning_mode(scanningMode) ==
    LET i_negative == bool(BitAnd(scanningMode, 128))
        j_positive == bool(BitAnd(scanningMode, 64))
        j_consecutive == bool(BitAnd(scanningMode, 32))
        i_alternative == bool(BitAnd(scanningMode, 16))
    IN IF i_alternative
       THEN IF "TranslationError" \in CommonGlobals
            THEN Raise("TranslationError",
                       <<"Grid definition section 3 contains unsupported ",
                         "alternative row scanning mode">>,
                       EmptyMetadata, <<"scanning_mode">>)
            ELSE NameError("TranslationError", EmptyMetadata, <<"scanning_mode">>)
       ELSE Return([kind |-> "ScanningMode",
                    i_negative |-> i_negative,
                    j_positive |-> j_positive,
                    j_consecutive |-> j_consecutive,
                    i_alternative |-> i_alternative],
                   EmptyMetadata, <<"scanning_mode">>)

(***************************************************************************)
(* _edition1.py                                                            *)
(***************************************************************************)
resolution_flags(resolutionAndComponentFlags) ==
    LET inc_given == bool(BitAnd(resolutionAndComponentFlags, 32))
        j_inc_given == bool(BitAnd(resolutionAndComponentFlags, 16))
        uv_resolved == bool(BitAnd(resolutionAndComponentFlags, 8))
    IN \* the body ends after the three assignments: no return statement
       Return(None, EmptyMetadata, <<"resolution_flags">>)

GeogCS(radius) == [kind |-> "GeogCS", semi_major_axis |-> radius]

StrictlyMonotonic(points) ==
    \/ Len(points) <= 1
    \/ \A i \in 1..(Len(points) - 1) : points[i] < points[i + 1]
    \/ \A i \in 1..(Len(points) - 1) : points[i] > points[i + 1]

\* iris.coords.DimCoord: the constructor is not part of the package files;
\* whether it rejects a points array that is not strictly monotonic is left
\* open (dimCoordValidates).
DimCoord(points, standard_name, coord_system, circular) ==
    IF dimCoordValidates /\ ~StrictlyMonotonic(points)
    THEN Raise("ValueError", <<"The points array must be strictly monotonic.">>,
               EmptyMetadata, <<>>)
    ELSE Return([kind |-> "DimCoord", standard_name |-> standard_name,
                 units |-> "degrees", points |-> points,
                 coord_system |-> coord_system, circular |-> circular],
                EmptyMetadata, <<>>)

\* iris.util._is_circular: stepping one more increment past the last point
\* lands on the first point plus the modulus.
_is_circular(points, modulus, step) ==
    (points[Len(points)] + step) % modulus = points[1] % modulus

\* numpy.arange(N) * inc * direction + offset
arange_points(N, inc, direction, offset) ==
    [i \in 1..N |-> (i - 1) * inc * direction + offset]

grid_definition_template_0(section, md) ==
    LET me == <<"grid_definition_template_0">>
        G == Edition1Globals
    IN
    \* Earth assumed spherical with radius of 6 371 229.0m
    IF "icoord_systems" \notin G THEN NameError("icoord_systems", md, me)
    ELSE
    LET cs == GeogCS(6371229) IN
    \* Check for reduced grid.
    IF section.PLPresent # 0
    THEN IF "TranslationError" \notin G
         THEN NameError("TranslationError", md, me)
         ELSE Raise("TranslationError",
                    <<"Grid definition section 2 contains unsupported ",
                      "quasi-regular grid">>, md, me)
    ELSE
    IF "scanning_mode" \notin G THEN NameError("scanning_mode", md, me)
    ELSE
    LET s == scanning_mode(section.scanningMode) IN
    IF s.exc # "none" THEN Raise(s.exc, s.msg, md, me \o s.calls)
    ELSE
    LET scan == s.val
        cs2 == me \o s.calls
    IN
    \* Calculate longitude points.
    IF "_GRID_ACCURACY_IN_DEGREES_GRIB1" \notin G
    THEN NameError("_GRID_ACCURACY_IN_DEGREES_GRIB1", md, cs2)
    ELSE
    LET x_inc == section.iDirectionIncrement
        x_offset == section.longitudeOfFirstGridPoint
        x_direction == IF scan.i_negative THEN -1 ELSE 1
        Ni == section.Ni
    IN
    IF "np" \notin G THEN NameError("np", md, cs2)
    ELSE
    LET x_points == arange_points(Ni, x_inc, x_direction, x_offset) IN
    \* Determine whether the x-points (in degrees) are circular.
    IF "_is_circular" \notin G THEN NameError("_is_circular", md, cs2)
    ELSE
    LET circular == _is_circular(x_points, 360, x_inc * x_direction)
        \* Calculate latitude points.
        y_inc == section.jDirectionIncrement
        y_offset == section.latitudeOfFirstGridPoint
        y_direction == IF scan.j_positive THEN 1 ELSE -1
        Nj == section.Nj
        y_points == arange_points(Nj, y_inc, y_direction, y_offset)
    IN
    \* Create the lat/lon coordinates.
    IF "DimCoord" \notin G THEN NameError("DimCoord", md, cs2)
    ELSE
    LET y_coord == DimCoord(y_points, "latitude", cs, FALSE) IN
    IF y_coord.exc # "none" THEN Raise(y_coord.exc, y_coord.msg, md, cs2)
    ELSE
    LET x_coord == DimCoord(x_points, "longitude", cs, circular) IN
    IF x_coord.exc # "none" THEN Raise(x_coord.exc, x_coord.msg, md, cs2)
    ELSE
    \* Determine the lat/lon dimensions.
    LET y_dim == IF scan.j_consecutive THEN 1 ELSE 0
        x_dim == IF scan.j_consecutive THEN 0 ELSE 1
    IN
    \* Add the lat/lon coordinates to the metadata dim coords.
    Return(None,
           [md EXCEPT !.dim_coords_and_dims =
               Append(Append(@, <<y_coord.val, y_dim>>), <<x_coord.val, x_dim>>)],
           cs2)

grib1_convert(fld, md) ==
    LET me == <<"grib1_convert">>
        G == Edition1Globals
    IN
    \* Section 1 - Product Definition Section (PDS)
    IF "_CENTRES" \notin G THEN NameError("_CENTRES", md, me)
    ELSE
    LET code == fld.s1.centre
        md1 == IF code \in DOMAIN centres
               THEN [md EXCEPT !.attributes =
                        [k \in {"centre"} |-> centres[code]]]
               ELSE md
    IN
    \* Section 2 - Grid Definition Section (GDS)
    IF "grid_definition_section_grib1" \notin G
    THEN NameError("grid_definition_section_grib1", md1, me)
    ELSE Return(None, md1, me)

(***************************************************************************)
(* _edition2.py is imported by __init__.py but is not among the package   *)
(* files; the GRIB2 converter and its regular latitude-longitude builder  *)
(* follow the design description (Grid Builders, Edition Converters).     *)
(* The builder decodes the scanning mode with scanning_mode of _common.py *)
(* and looks the centre up in the table of _common.py.                    *)
(***************************************************************************)
\* the axis order without the swap for consecutive j points
grib2_axis_dims_never_swapped(scan) == <<0, 1>>

\* axis order (latitude, longitude): (0, 1), swapped when j_consecutive
grib2_axis_dims(scan) == IF scan.j_consecutive THEN <<1, 0>> ELSE <<0, 1>>

grib2_grid_definition_template_0(section, md) ==
    LET me == <<"grib2_grid_definition_template_0">>
        cs == GeogCS(6371229)
    IN
    IF section.PLPresent # 0
    THEN Raise("TranslationError",
               <<"Grid definition section 3 contains unsupported ",
                 "quasi-regular grid">>, md, me)
    ELSE
    LET s == scanning_mode(section.scanningMode) IN
    IF s.exc # "none" THEN Raise(s.exc, s.msg, md, me \o s.calls)
    ELSE
    LET scan == s.val
        cs2 == me \o s.calls
        x_direction == IF scan.i_negative THEN -1 ELSE 1
        x_points == arange_points(section.Ni, section.iDirectionIncrement,
                                  x_direction, section.longitudeOfFirstGridPoint)
        y_direction == IF scan.j_positive THEN 1 ELSE -1
        y_points == arange_points(section.Nj, section.jDirectionIncrement,
                                  y_direction, section.latitudeOfFirstGridPoint)
        circular == _is_circular(x_points, 360,
                                 section.iDirectionIncrement * x_direction)
        y_coord == DimCoord(y_points, "latitude", cs, FALSE)
        x_coord == DimCoord(x_points, "longitude", cs, circular)
        y_dim == grib2_axis_dims(scan)[1]
        x_dim == grib2_axis_dims(scan)[2]
    IN
    IF y_coord.exc # "none" THEN Raise(y_coord.exc, y_coord.msg, md, cs2)
    ELSE IF x_coord.exc # "none" THEN Raise(x_coord.exc, x_coord.msg, md, cs2)
    ELSE Return(None,
                [md EXCEPT !.dim_coords_and_dims =
                    Append(Append(@, <<y_coord.val, y_dim>>),
                           <<x_coord.val, x_dim>>)],
                cs2)

SupportedTemplates == {0}

grib2_convert(fld, md) ==
    LET me == <<"grib2_convert">>
        code == fld.s1.centre
        md1 == IF code \in DOMAIN centres
               THEN [md EXCEPT !.attributes =
                        [k \in {"centre"} |-> centres[code]]]
               ELSE md
        template == fld.gds.template
    IN
    IF template \in SupportedTemplates
    THEN LET r == grib2_grid_definition_template_0(fld.gds, md1)
         IN [r EXCEPT !.calls = me \o @]
    ELSE Raise("TranslationError",
               <<"Grid definition template ">> \o Decimal(template)
                   \o <<" is not supported">>, md1, me)

(***************************************************************************)
(* __init__.py                                                             *)
(***************************************************************************)
ConversionMetadata_make(md) ==
    [kind |-> "ConversionMetadata",
     factories |-> md.factories, references |-> md.references,
     standard_name |-> md.standard_name, long_name |-> md.long_name,
     units |-> md.units, attributes |-> md.attributes,
     cell_methods |-> md.cell_methods,
     dim_coords_and_dims |-> md.dim_coords_and_dims,
     aux_coords_and_dims |-> md.aux_coords_and_dims]

\* convert with the final else branch treated as GRIB2
convert_any_edition_is_grib2(fld) ==
    LET editionNumber == fld.s0.editionNumber
        md == EmptyMetadata
        r == IF editionNumber = 1 THEN grib1_convert(fld, md)
             ELSE grib2_convert(fld, md)
    IN IF r.exc # "none" THEN r
       ELSE Return(ConversionMetadata_make(r.metadata), r.metadata, r.calls)

convert(fld) ==
    LET editionNumber == fld.s0.editionNumber
        \* Initialise the cube metadata.
        md == EmptyMetadata
    IN
    \* Convert GRIB2 message to cube metadata.
    IF editionNumber = 1
    THEN LET r == grib1_convert(fld, md)
         IN IF r.exc # "none" THEN r
            ELSE Return(ConversionMetadata_make(r.metadata), r.metadata, r.calls)
    ELSE IF editionNumber = 2
    THEN LET r == grib2_convert(fld, md)
         IN IF r.exc # "none" THEN r
            ELSE Return(ConversionMetadata_make(r.metadata), r.metadata, r.calls)
    ELSE Raise("TranslationError",
               <<"GRIB edition ">> \o Decimal(editionNumber)
                   \o <<" is not supported">>, md, <<>>)

(***************************************************************************)
(* Inputs                                                                  *)
(***************************************************************************)
Sections ==
    [template : Templates, PLPresent : {0, 1}, scanningMode : ScanModes,
     Ni : 1..MaxN, Nj : 1..MaxN,
     iDirectionIncrement : 0..MaxInc, jDirectionIncrement : 0..MaxInc,
     longitudeOfFirstGridPoint : 0..MaxOffset,
     latitudeOfFirstGridPoint : 0..MaxOffset]

Messages ==
    [s0 : [editionNumber : Editions], s1 : [centre : CentreCodes],
     gds : Sections]

DefaultSection ==
    [template |-> 0, PLPresent |-> 0, scanningMode |-> 0, Ni |-> 1, Nj |-> 1,
     iDirectionIncrement |-> 0, jDirectionIncrement |-> 0,
     longitudeOfFirstGridPoint |-> 0, latitudeOfFirstGridPoint |-> 0]

DefaultMessage ==
    [s0 |-> [editionNumber |-> 1], s1 |-> [centre |-> "ecmf"],
     gds |-> DefaultSection]

\* a metadata dictionary that already carries a dimension coordinate
PriorCoord ==
    [kind |-> "DimCoord", standard_name |-> "time", units |-> "hours",
     points |-> <<0, 6>>, coord_system |-> None, circular |-> FALSE]

PriorMetadata ==
    {EmptyMetadata,
     [EmptyMetadata EXCEPT !.dim_coords_and_dims = <<<<PriorCoord, 2>>>>]}

(***************************************************************************)
(* One call of one function of the package per behaviour.                 *)
(***************************************************************************)
InitOutputs ==
    /\ pc = "call"
    /\ exc = "none"
    /\ msg = <<>>
    /\ ret = None
    /\ calls = <<>>
    /\ centres = _CENTRES

Init ==
    /\ InitOutputs
    /\ \/ /\ op = "convert"
          /\ field \in Messages
          /\ flags = 0
          /\ md0 = EmptyMetadata
          /\ dimCoordValidates \in
                (IF field.s0.editionNumber = 2 THEN BOOLEAN ELSE {FALSE})
       \/ /\ op = "grib1_convert"
          /\ field \in {m \in Messages : m.s0.editionNumber = 1}
          /\ flags = 0
          /\ md0 \in PriorMetadata
          /\ dimCoordValidates = FALSE
       \/ /\ op = "grid_definition_template_0"
          /\ field \in {m \in Messages : /\ m.s0.editionNumber = 1
                                         /\ m.s1.centre = "ecmf"}
          /\ flags = 0
          /\ md0 \in PriorMetadata
          /\ dimCoordValidates = FALSE
       \/ /\ op \in {"scanning_mode", "resolution_flags", "projection_centre"}
          /\ field = DefaultMessage
          /\ flags \in Flags
          /\ md0 = EmptyMetadata
          /\ dimCoordValidates = FALSE
    /\ metadata = md0

Finish(r) ==
    /\ pc' = "done"
    /\ exc' = r.exc
    /\ msg' = r.msg
    /\ ret' = r.val
    /\ metadata' = r.metadata
    /\ calls' = r.calls
    /\ UNCHANGED <<op, field, flags, md0, dimCoordValidates, centres>>

Convert ==
    /\ pc = "call" /\ op = "convert"
    /\ Finish(convert(field))

Grib1Convert ==
    /\ pc = "call" /\ op = "grib1_convert"
    /\ Finish(grib1_convert(field, md0))

GridDefinitionTemplate0 ==
    /\ pc = "call" /\ op = "grid_definition_template_0"
    /\ Finish(grid_definition_template_0(field.gds, md0))

ScanningMode ==
    /\ pc = "call" /\ op = "scanning_mode"
    /\ Finish(scanning_mode(flags))

ResolutionFlags ==
    /\ pc = "call" /\ op = "resolution_flags"
    /\ Finish(resolution_flags(flags))

ProjectionCentre ==
    /\ pc = "call" /\ op = "projection_centre"
    /\ Finish(projection_centre(flags))

Next ==
    \/ Convert
    \/ Grib1Convert
    \/ GridDefinitionTemplate0
    \/ ScanningMode
    \/ ResolutionFlags
    \/ ProjectionCentre

Spec == Init /\ [][Next]_vars

(***************************************************************************)
(* Properties                                                              *)
(***************************************************************************)
Done(o) == pc = "done" /\ op = o

Bit(f, mask) == bool(BitAnd(f, mask))

ValidRegularLL(m) ==
    /\ m.s0.editionNumber \in {1, 2}
    /\ m.gds.template = 0
    /\ m.gds.PLPresent = 0
    /\ ~Bit(m.gds.scanningMode, 16)

\* C1: convert delegates to the GRIB1 converter for edition 1 and to the
\* GRIB2 converter for edition 2; for any other edition it raises a
\* TranslationError whose message contains the edition number, enters no
\* converter and returns no metadata record.
C1_ConvertDispatch ==
    Done("convert") =>
        LET e == field.s0.editionNumber IN
        /\ e = 1 => (calls # <<>> /\ calls[1] = "grib1_convert")
        /\ e = 2 => (calls # <<>> /\ calls[1] = "grib2_convert")
        /\ e \notin {1, 2} =>
              /\ exc = "TranslationError"
              /\ Contains(msg, Decimal(e))
              /\ calls = <<>>
              /\ ret = None
        /\ exc # "none" => ret = None

C1_Witness ==
    /\ Done("convert")
    /\ field.s0.editionNumber = 3
    /\ exc = "TranslationError"
    /\ msg = <<"GRIB edition ", "3", " is not supported">>

\* C2: scanning_mode(flags) raises TranslationError exactly when bit 0x10 is
\* set, raises nothing else, and otherwise returns the four flags decoded
\* from bits 0x80, 0x40, 0x20 with i_alternative false.
C2_ScanningModeClaim ==
    Done("scanning_mode") =>
        /\ exc \in {"none", "TranslationError"}
        /\ (exc = "TranslationError") <=> Bit(flags, 16)
        /\ exc = "none" =>
              ret = [kind |-> "ScanningMode",
                     i_negative |-> Bit(flags, 128),
                     j_positive |-> Bit(flags, 64),
                     j_consecutive |-> Bit(flags, 32),
                     i_alternative |-> FALSE]

\* C3: with PLPresent set the GRIB1 regular lat-lon builder raises
\* TranslationError and leaves dim_coords_and_dims as it was before the call.
C3_QuasiRegularClaim ==
    (Done("grid_definition_template_0") /\ field.gds.PLPresent # 0) =>
        /\ exc = "TranslationError"
        /\ metadata.dim_coords_and_dims = md0.dim_coords_and_dims

\* C4: for a valid regular lat-lon message of edition 1 or 2 (with grid
\* points that are pairwise distinct along each axis) convert returns a
\* record whose dim_coords_and_dims holds exactly a latitude coordinate of
\* Nj points followed by a longitude coordinate of Ni points.
C4_TwoDimCoordsClaim ==
    (/\ Done("convert")
     /\ ValidRegularLL(field)
     /\ (field.gds.Ni = 1 \/ field.gds.iDirectionIncrement # 0)
     /\ (field.gds.Nj = 1 \/ field.gds.jDirectionIncrement # 0)) =>
        /\ exc = "none"
        /\ ret.kind = "ConversionMetadata"
        /\ Len(ret.dim_coords_and_dims) = 2
        /\ ret.dim_coords_and_dims[1][1].standard_name = "latitude"
        /\ Len(ret.dim_coords_and_dims[1][1].points) = field.gds.Nj
        /\ ret.dim_coords_and_dims[2][1].standard_name = "longitude"
        /\ Len(ret.dim_coords_and_dims[2][1].points) = field.gds.Ni

C6_PointFormulaClaim ==
    (/\ Done("grid_definition_template_0")
     /\ field.gds.PLPresent = 0
     /\ ~Bit(field.gds.scanningMode, 16)) =>
        LET g == field.gds
            n == Len(md0.dim_coords_and_dims)
            xd == IF Bit(g.scanningMode, 128) THEN -1 ELSE 1
            yd == IF Bit(g.scanningMode, 64) THEN 1 ELSE -1
        IN /\ exc = "none"
           /\ Len(metadata.dim_coords_and_dims) = n + 2
           /\ metadata.dim_coords_and_dims[n + 1][1].points =
                 [i \in 1..g.Nj |->
                     (i - 1) * g.jDirectionIncrement * yd
                         + g.latitudeOfFirstGridPoint]
           /\ metadata.dim_coords_and_dims[n + 2][1].points =
                 [i \in 1..g.Ni |->
                     (i - 1) * g.iDirectionIncrement * xd
                         + g.longitudeOfFirstGridPoint]

\* C7: every coordinate placed in dim_coords_and_dims has a strictly
\* monotonic point sequence, also for sections with a zero increment and
\* more than one point along that axis.
C7_StrictlyMonotonicClaim ==
    pc = "done" =>
        \A i \in 1..Len(metadata.dim_coords_and_dims) :
            StrictlyMonotonic(metadata.dim_coords_and_dims[i][1].points)

\* C8: the edition converter never fails on the centre lookup; a code of
\* the static table sets attributes['centre'] to the table's name, any other
\* code leaves attributes without a 'centre' key, and the table is unchanged.
C8_CentreLookupClaim ==
    (\/ Done("grib1_convert")
     \/ (Done("convert") /\ field.s0.editionNumber \in {1, 2})) =>
        LET code == field.s1.centre IN
        /\ ~(exc = "NameError" /\ Contains(msg, <<"_CENTRES">>))
        /\ code \in DOMAIN _CENTRES =>
              /\ "centre" \in DOMAIN metadata.attributes
              /\ metadata.attributes["centre"] = _CENTRES[code]
        /\ code \notin DOMAIN _CENTRES =>
              "centre" \notin DOMAIN metadata.attributes
        /\ centres = _CENTRES

\* C9: for a message of edition 1 or 2 whose grid-definition section names
\* a template outside the supported set, the edition converter raises a
\* TranslationError whose message names the template, and no grid builder
\* is entered and no coordinate appended.
C9_UnsupportedTemplateClaim ==
    (/\ Done("convert")
     /\ field.s0.editionNumber \in {1, 2}
     /\ field.gds.template \notin SupportedTemplates) =>
        /\ exc = "TranslationError"
        /\ Contains(msg, Decimal(field.gds.template))
        /\ \A i \in 1..Len(calls) :
              calls[i] \notin {"grid_definition_template_0",
                               "grib2_grid_definition_template_0"}
        /\ metadata.dim_coords_and_dims = <<>>

\* C10: resolution_flags(flags) never fails and returns the named tuple
\* (i_increments_given, j_increments_given, uv_resolved) holding the tests
\* of bits 0x20, 0x10 and 0x08 of flags.
C10_ResolutionFlagsClaim ==
    Done("resolution_flags") =>
        /\ exc = "none"
        /\ ret = [kind |-> "ResolutionFlags",
                  i_increments_given |-> Bit(flags, 32),
                  j_increments_given |-> Bit(flags, 16),
                  uv_resolved |-> Bit(flags, 8)]

=============================================================================
